---- MODULE Spec2Model ----
(***************************************************************************)
(* Arc odometry of LemLib: src/lemlib/odom/arc.cpp.                        *)
(*                                                                         *)
(* ArcOdom holds three sensor vectors (verticals, horizontals, gyros) and  *)
(* a pose.  calibrate() resets the tracking wheels, calibrates the gyros   *)
(* and erases the sensors that fail; update() integrates one cycle of      *)
(* sensor deltas into the pose.                                            *)
(*                                                                         *)
(* float values are modelled as exact extended rationals <<n, d>>:         *)
(* d > 0 is the rational n/d in lowest terms, <<1,0>> and <<-1,0>> are the *)
(* IEEE infinities and <<0,0>> is NaN.  Rounding is not modelled.          *)
(* std::sin and Pose::rotate are kept symbolic (see Chord and Rotate).     *)
(***************************************************************************)
EXTENDS Integers, Sequences, FiniteSets, TLC

VARIABLES
    verticals,      \* std::vector<TrackingWheel>&: sequence of wheels
    horizontals,    \* std::vector<TrackingWheel>&: sequence of wheels
    gyros,          \* std::vector<std::shared_ptr<Gyro>>&: sequence of ports
    gyroState,      \* the Gyro objects: port -> calibration state
    gyroDelta,      \* the Gyro objects: port -> rotation not yet read
    pose,           \* ArcOdom::pose
    failing,        \* the wheels whose reset() fails during the running calibrate()
    startup,        \* calibrate() has not been called yet
    pc,             \* position of the single thread of control
    it,             \* the iterator of the loop being run, as an index from begin()
    calibrateGyros, \* parameter of the running calibrate()
    polls,          \* polls of the timer loop made so far
    issued,         \* the gyros that received calibrate() in the last pass over gyros
    theta,          \* local of update(): deltaTheta, avgTheta
    local,          \* local of update(): Pose local; x and y as multiples of sinDTheta2
    updates,        \* completed integrations (bounds the pose history)
    calls,          \* calls made on the sensors and the logger by the running operation
    entry           \* the state the running operation was entered with

vars == <<verticals, horizontals, gyros, gyroState, gyroDelta, pose, failing, startup, pc, it,
          calibrateGyros, polls, issued, theta, local, updates, calls, entry>>

----------------------------------------------------------------------------
(* Bounds of the model *)

MaxWheels == 2
MaxGyros == 2
MaxPolls == 2
MaxUpdates == 1
MaxOverrun == 1

----------------------------------------------------------------------------
(* float arithmetic *)

Abs(n) == IF n < 0 THEN -n ELSE n

Sign(n) == IF n < 0 THEN -1 ELSE IF n > 0 THEN 1 ELSE 0

RECURSIVE GCD(_, _)
GCD(a, b) == IF b = 0 THEN a ELSE GCD(b, a % b)

Norm(n, d) ==
    IF d = 0 THEN <<Sign(n), 0>>
    ELSE LET s == Sign(d)
             g == GCD(Abs(n), Abs(d))
         IN  <<(s * n) \div g, (s * d) \div g>>

F(n) == <<n, 1>>

Zero == F(0)

NaN == <<0, 0>>

Neg(a) == <<-a[1], a[2]>>

Add(a, b) ==
    IF a[2] = 0 /\ b[2] = 0
    THEN IF a[1] = b[1] THEN a ELSE NaN
    ELSE Norm(a[1] * b[2] + b[1] * a[2], a[2] * b[2])

Sub(a, b) == Add(a, Neg(b))

Div(a, b) == Norm(a[1] * b[2], a[2] * b[1])

----------------------------------------------------------------------------
(* Sequences *)

Range(s) == {s[i] : i \in 1..Len(s)}

\* The elements of s that satisfy Keep, in order.
RECURSIVE Filter(_, _)
Filter(s, keep) ==
    IF s = <<>> THEN <<>>
    ELSE (IF Head(s) \in keep THEN <<Head(s)>> ELSE <<>>) \o Filter(Tail(s), keep)

RECURSIVE IsSubSeq(_, _)
IsSubSeq(s, t) ==
    IF s = <<>> THEN TRUE
    ELSE IF t = <<>> THEN FALSE
    ELSE IF Head(s) = Head(t) THEN IsSubSeq(Tail(s), Tail(t))
    ELSE IsSubSeq(s, Tail(t))

Offsets(ws) == [i \in 1..Len(ws) |-> ws[i].offset]

----------------------------------------------------------------------------
(* The collaborators: TrackingWheel, Gyro, the logger *)

Call(fn, on, arg, ret) == [fn |-> fn, on |-> on, arg |-> arg, ret |-> ret]

Bool(b) == IF b THEN F(1) ELSE Zero

\* TrackingWheel::reset(): true when the reset failed.
Reset(group, w) == w.offset \in failing[group]

\* The default of the parameter of getDistanceDelta(): a consuming read.
DefaultUpdate == TRUE

\* TrackingWheel::getDistanceDelta(update): the distance since the last
\* consuming read; a consuming read advances the last-read marker.
GetDistanceDelta(w, consume) ==
    [ret |-> w.delta, wheel |-> IF consume THEN [w EXCEPT !.delta = Zero] ELSE w]

\* Gyro::calibrate() starts a calibration, which may fail to start.
GyroCalibrate(s, started) == IF started THEN "calibrating" ELSE s

IsCalibrating(s) == s = "calibrating"

IsCalibrated(s) == s = "calibrated"

----------------------------------------------------------------------------
(* std::vector *)

\* Mutant of Erase: insert(it, *it) in place of erase(it).
EraseInserting(vec, i) ==
    [k \in 1..(Len(vec) + 1) |-> IF k <= i + 1 THEN vec[k] ELSE vec[k - 1]]

\* vector::erase(begin() + i): the elements after i move down by one.
Erase(vec, i) == [k \in 1..(Len(vec) - 1) |-> IF k <= i THEN vec[k] ELSE vec[k + 1]]

\* The body "if (failed) vec.erase(it);" followed by the loop's "it++":
\* the iterator is not reassigned from erase(), it is only incremented.
\* A vector iterator is a pointer into the storage: after erase() it
\* designates the element that moved down, which "it++" then steps over.
EraseAndAdvance(vec, i, failed) ==
    [vec |-> IF failed THEN Erase(vec, i) ELSE vec, it |-> i + 1]

\* "it != vec.end()" with it beyond end(): the body runs on storage that
\* holds no element.  The build may fault, or read a stale slot: a slot that
\* passes leaves the vector alone, a slot that fails makes erase(it) destroy
\* the vector's last element (it moves nothing, and decrements the end).
\* The traversal faults once it leaves readable storage.
Overrun(vec, i, cap) ==
    {[crash |-> TRUE, vec |-> vec, it |-> i]}
    \cup (IF i < cap + MaxOverrun
          THEN {[crash |-> FALSE, vec |-> vec, it |-> i + 1]}
               \cup (IF Len(vec) > 0
                     THEN {[crash |-> FALSE, vec |-> SubSeq(vec, 1, Len(vec) - 1),
                            it |-> i + 1]}
                     ELSE {})
          ELSE {})

----------------------------------------------------------------------------
(* Initial state: ArcOdom::ArcOdom *)

OffsetOf(i) == F(2 * i - 3)

Wheel(i) == [id |-> i, offset |-> OffsetOf(i), delta |-> Zero]

Wheels(n) == [i \in 1..n |-> Wheel(i)]

NoneFailing == [v |-> {}, h |-> {}]

NoTheta == [deltaTheta |-> Zero, avgTheta |-> Zero]

NoLocal == [x |-> Zero, y |-> Zero, theta |-> Zero]

NoPose == [xy |-> <<>>, theta |-> Zero]

NoEntry == [verticals |-> <<>>, horizontals |-> <<>>, gyros |-> <<>>, gyroDelta |-> <<>>,
            pose |-> NoPose, expiry |-> <<>>]

\* The sensors and the pose as an operation finds them; expiry is the state
\* of the gyros when the timer of calibrate() expires.
Snapshot == [verticals |-> verticals, horizontals |-> horizontals, gyros |-> gyros,
             gyroDelta |-> gyroDelta, pose |-> pose, expiry |-> gyroState]

Init ==
    /\ \E nv \in 0..MaxWheels, nh \in 0..MaxWheels :
          /\ verticals = Wheels(nv)
          /\ horizontals = Wheels(nh)
    /\ failing = NoneFailing
    /\ startup = TRUE
    /\ \E ng \in 0..MaxGyros :
          /\ gyros = [i \in 1..ng |-> i]
          /\ gyroState = [p \in 1..ng |-> "idle"]
          /\ gyroDelta = [p \in 1..ng |-> Zero]
    /\ pose = NoPose
    /\ pc = "idle"
    /\ it = 0
    /\ calibrateGyros = FALSE
    /\ polls = 0
    /\ issued = <<>>
    /\ theta = NoTheta
    /\ local = NoLocal
    /\ updates = 0
    /\ calls = <<>>
    /\ entry = NoEntry

----------------------------------------------------------------------------
(* ArcOdom::calibrate *)

\* calibrate(flag) is entered; fv and fh are the wheels whose hardware is
\* not ready, so that their reset() fails during this call.
CalibrateCall(flag, fv, fh) ==
    /\ pc = "idle"
    /\ failing' = [v |-> fv, h |-> fh]
    /\ startup' = FALSE
    /\ pc' = "cal_v"
    /\ it' = 0
    /\ calibrateGyros' = flag
    /\ polls' = 0
    /\ issued' = <<>>
    /\ calls' = <<>>
    /\ entry' = Snapshot
    /\ UNCHANGED <<verticals, horizontals, gyros, gyroState, gyroDelta, pose, theta, local,
                   updates>>

\* One pass of the body of the loop over verticals.
ResetVertical ==
    /\ pc = "cal_v"
    /\ it < Len(verticals)
    /\ LET w == verticals[it + 1]
           failed == Reset("v", w)
           r == EraseAndAdvance(verticals, it, failed)
       IN  /\ verticals' = r.vec
           /\ it' = r.it
           /\ calls' = calls \o <<Call("reset", "v", w.offset, Bool(failed))>>
                             \o (IF failed
                                 THEN <<Call("warn", "v", w.offset, Zero)>>
                                 ELSE <<>>)
    /\ UNCHANGED <<startup, issued, horizontals, gyros, gyroState, gyroDelta, pose, failing, pc,
                   calibrateGyros, polls, theta, local, updates, entry>>

VerticalsDone ==
    /\ pc = "cal_v"
    /\ it = Len(verticals)
    /\ pc' = "cal_h"
    /\ it' = 0
    /\ UNCHANGED <<startup, issued, verticals, horizontals, gyros, gyroState, gyroDelta, pose, failing,
                   calibrateGyros, polls, theta, local, updates, calls, entry>>

VerticalsPastEnd ==
    /\ pc = "cal_v"
    /\ it > Len(verticals)
    /\ \E o \in Overrun(verticals, it, MaxWheels) :
          /\ verticals' = o.vec
          /\ it' = o.it
          /\ pc' = IF o.crash THEN "crashed" ELSE pc
    /\ UNCHANGED <<startup, issued, horizontals, gyros, gyroState, gyroDelta, pose, failing,
                   calibrateGyros, polls, theta, local, updates, calls, entry>>

\* One pass of the body of the loop over horizontals.
ResetHorizontal ==
    /\ pc = "cal_h"
    /\ it < Len(horizontals)
    /\ LET w == horizontals[it + 1]
           failed == Reset("h", w)
           r == EraseAndAdvance(horizontals, it, failed)
       IN  /\ horizontals' = r.vec
           /\ it' = r.it
           /\ calls' = calls \o <<Call("reset", "h", w.offset, Bool(failed))>>
                             \o (IF failed
                                 THEN <<Call("warn", "h", w.offset, Zero)>>
                                 ELSE <<>>)
    /\ UNCHANGED <<startup, issued, verticals, gyros, gyroState, gyroDelta, pose, failing, pc,
                   calibrateGyros, polls, theta, local, updates, entry>>

HorizontalsDone ==
    /\ pc = "cal_h"
    /\ it = Len(horizontals)
    /\ pc' = "cal_g"
    /\ it' = 0
    /\ UNCHANGED <<startup, issued, verticals, horizontals, gyros, gyroState, gyroDelta, pose, failing,
                   calibrateGyros, polls, theta, local, updates, calls, entry>>

HorizontalsPastEnd ==
    /\ pc = "cal_h"
    /\ it > Len(horizontals)
    /\ \E o \in Overrun(horizontals, it, MaxWheels) :
          /\ horizontals' = o.vec
          /\ it' = o.it
          /\ pc' = IF o.crash THEN "crashed" ELSE pc
    /\ UNCHANGED <<startup, issued, verticals, gyros, gyroState, gyroDelta, pose, failing,
                   calibrateGyros, polls, theta, local, updates, calls, entry>>

\* if (calibrateGyros) is false: calibrate() returns.
GyrosSkipped ==
    /\ pc = "cal_g"
    /\ ~calibrateGyros
    /\ pc' = "cal_return"
    /\ UNCHANGED <<startup, issued, verticals, horizontals, gyros, gyroState, gyroDelta, pose, failing, it,
                   calibrateGyros, polls, theta, local, updates, calls, entry>>

\* for (auto& it : gyros) it->calibrate(); Timer timer(3000);
GyrosStart ==
    /\ pc = "cal_g"
    /\ calibrateGyros
    /\ \E started \in SUBSET Range(gyros) :
          gyroState' = [p \in DOMAIN gyroState |->
                           IF p \in Range(gyros)
                           THEN GyroCalibrate(gyroState[p], p \in started)
                           ELSE gyroState[p]]
    /\ issued' = gyros
    /\ polls' = 0
    /\ pc' = "cal_poll"
    /\ UNCHANGED <<startup, verticals, horizontals, gyros, gyroDelta, pose, failing, it,
                   calibrateGyros, theta, local, updates, calls, entry>>

\* Mutant of NeedsCalibrate: the test of isCalibrating() is left out.
NeedsCalibrateNotCalibrated(s) == ~IsCalibrated(s)

\* The gyros one pass of the timer loop calibrates again.
NeedsCalibrate(s) == ~IsCalibrating(s) /\ ~IsCalibrated(s)

Retried == Filter(gyros, {p \in DOMAIN gyroState : NeedsCalibrate(gyroState[p])})

\* One pass of while (!timer.isDone()), ending in pros::delay(10).  The
\* 3000 ms of the timer are MaxPolls passes.
PollGyros ==
    /\ pc = "cal_poll"
    /\ polls < MaxPolls
    /\ \E started \in SUBSET Range(Retried) :
          gyroState' = [p \in DOMAIN gyroState |->
                           IF p \in Range(Retried)
                           THEN GyroCalibrate(gyroState[p], p \in started)
                           ELSE gyroState[p]]
    /\ issued' = Retried
    /\ polls' = polls + 1
    /\ UNCHANGED <<startup, verticals, horizontals, gyros, gyroDelta, pose, failing, pc, it,
                   calibrateGyros, theta, local, updates, calls, entry>>

\* timer.isDone(): the budget has expired.
TimerDone ==
    /\ pc = "cal_poll"
    /\ polls = MaxPolls
    /\ pc' = "cal_evict"
    /\ it' = 0
    /\ entry' = [entry EXCEPT !.expiry = gyroState]
    /\ UNCHANGED <<startup, issued, verticals, horizontals, gyros, gyroState, gyroDelta, pose, failing,
                   calibrateGyros, polls, theta, local, updates, calls>>

\* One pass of the body of the loop that erases the gyros not calibrated.
EvictGyro ==
    /\ pc = "cal_evict"
    /\ it < Len(gyros)
    /\ LET p == gyros[it + 1]
           failed == ~IsCalibrated(gyroState[p])
           r == EraseAndAdvance(gyros, it, failed)
       IN  /\ gyros' = r.vec
           /\ it' = r.it
           /\ calls' = calls \o (IF failed
                                 THEN <<Call("warn", "g", F(p), Zero)>>
                                 ELSE <<>>)
    /\ UNCHANGED <<startup, issued, verticals, horizontals, gyroState, gyroDelta, pose, failing, pc,
                   calibrateGyros, polls, theta, local, updates, entry>>

GyrosDone ==
    /\ pc = "cal_evict"
    /\ it = Len(gyros)
    /\ pc' = "cal_return"
    /\ UNCHANGED <<startup, issued, verticals, horizontals, gyros, gyroState, gyroDelta, pose, failing, it,
                   calibrateGyros, polls, theta, local, updates, calls, entry>>

GyrosPastEnd ==
    /\ pc = "cal_evict"
    /\ it > Len(gyros)
    /\ \E o \in Overrun(gyros, it, MaxGyros) :
          /\ gyros' = o.vec
          /\ it' = o.it
          /\ pc' = IF o.crash THEN "crashed" ELSE pc
    /\ UNCHANGED <<startup, issued, verticals, horizontals, gyroState, gyroDelta, pose, failing,
                   calibrateGyros, polls, theta, local, updates, calls, entry>>

\* A calibration in progress ends, in success or in failure, while the
\* thread sleeps in pros::delay or is outside calibrate().
GyroProgress ==
    /\ pc \in {"idle", "cal_poll"}
    /\ \E p \in DOMAIN gyroState, s \in {"calibrated", "idle"} :
          /\ IsCalibrating(gyroState[p])
          /\ gyroState' = [gyroState EXCEPT ![p] = s]
    /\ UNCHANGED <<startup, issued, verticals, horizontals, gyros, gyroDelta, pose, failing, pc, it,
                   calibrateGyros, polls, theta, local, updates, calls, entry>>

\* calibrate() returns: its locals go out of scope.
CalibrateReturn ==
    /\ pc = "cal_return"
    /\ pc' = "idle"
    /\ it' = 0
    /\ calibrateGyros' = FALSE
    /\ polls' = 0
    /\ issued' = <<>>
    /\ calls' = <<>>
    /\ entry' = NoEntry
    /\ failing' = NoneFailing
    /\ UNCHANGED <<startup, verticals, horizontals, gyros, gyroState, gyroDelta, pose, theta,
                   local, updates>>

Calibrate ==
    \/ \E flag \in BOOLEAN, fv \in SUBSET Range(Offsets(verticals)),
          fh \in SUBSET Range(Offsets(horizontals)) : CalibrateCall(flag, fv, fh)
    \/ ResetVertical
    \/ VerticalsDone
    \/ VerticalsPastEnd
    \/ ResetHorizontal
    \/ HorizontalsDone
    \/ HorizontalsPastEnd
    \/ GyrosSkipped
    \/ GyrosStart
    \/ PollGyros
    \/ TimerDone
    \/ EvictGyro
    \/ GyrosDone
    \/ GyrosPastEnd
    \/ CalibrateReturn

----------------------------------------------------------------------------
(* The robot moves: the sensors accumulate deltas between update cycles *)

Motions == {"still", "forward", "turn", "slip"}

WheelReading(m, group, w) ==
    CASE m = "still" -> Zero
      [] m = "forward" -> IF group = "v" THEN F(1) ELSE Zero
      [] m = "turn" -> w.offset
      [] m = "slip" -> F(w.id)

GyroReading(m, p) ==
    CASE m = "turn" -> F(1)
      [] m = "slip" -> F(p + 1)
      [] OTHER -> Zero

Drive(m) ==
    /\ pc = "idle"
    /\ verticals' = [i \in 1..Len(verticals) |->
                        [verticals[i] EXCEPT !.delta = WheelReading(m, "v", verticals[i])]]
    /\ horizontals' = [i \in 1..Len(horizontals) |->
                        [horizontals[i] EXCEPT !.delta = WheelReading(m, "h", horizontals[i])]]
    /\ gyroDelta' = [p \in DOMAIN gyroDelta |-> GyroReading(m, p)]
    /\ UNCHANGED <<startup, issued, gyros, gyroState, pose, failing, pc, it, calibrateGyros, polls, theta,
                   local, updates, calls, entry>>

\* The pose mutator: the caller sets the pose to a known position and
\* heading between two update cycles.
StartPose == [xy |-> <<[x |-> F(1), y |-> F(2), chord |-> [sin |-> FALSE, of |-> Zero],
                        by |-> Zero]>>,
              theta |-> F(1)]

SetPose ==
    /\ pc = "idle"
    /\ pose' = StartPose
    /\ UNCHANGED <<verticals, horizontals, gyros, gyroState, gyroDelta, failing, startup, pc,
                   it, calibrateGyros, polls, issued, theta, local, updates, calls, entry>>

----------------------------------------------------------------------------
(* calcDeltaTheta *)

\* Mutant of CalcDeltaThetaWheels: the two reads consume the deltas.
CalcDeltaThetaWheelsConsuming(group, tracker1, tracker2) ==
    LET r1 == GetDistanceDelta(tracker1, TRUE)
        r2 == GetDistanceDelta(tracker2, TRUE)
        numerator == Sub(r1.ret, r2.ret)
        denominator == Sub(tracker1.offset, tracker2.offset)
    IN  [ret |-> Div(numerator, denominator),
         tracker1 |-> r1.wheel,
         tracker2 |-> r2.wheel,
         calls |-> <<Call("getDistanceDelta()", group, tracker1.offset, r1.ret),
                     Call("getDistanceDelta()", group, tracker2.offset, r2.ret)>>]

\* calcDeltaTheta(TrackingWheel&, TrackingWheel&)
CalcDeltaThetaWheels(group, tracker1, tracker2) ==
    LET r1 == GetDistanceDelta(tracker1, FALSE)
        r2 == GetDistanceDelta(tracker2, FALSE)
        numerator == Sub(r1.ret, r2.ret)
        denominator == Sub(tracker1.offset, tracker2.offset)
    IN  [ret |-> Div(numerator, denominator),
         tracker1 |-> r1.wheel,
         tracker2 |-> r2.wheel,
         calls |-> <<Call("getDistanceDelta(false)", group, tracker1.offset, r1.ret),
                     Call("getDistanceDelta(false)", group, tracker2.offset, r2.ret)>>]

\* calcDeltaTheta(std::vector<std::shared_ptr<Gyro>>&): the running sum
\* after the first k gyros.
RECURSIVE CalcDeltaThetaGyros(_, _)
CalcDeltaThetaGyros(gs, k) ==
    IF k = 0 THEN Zero
    ELSE Add(CalcDeltaThetaGyros(gs, k - 1), Div(gyroDelta[gs[k]], F(Len(gs))))

\* The first two wheels of a vector after calcDeltaTheta(vec.at(0), vec.at(1)).
WithFirstTwo(vec, r) ==
    [i \in 1..Len(vec) |-> IF i = 1 THEN r.tracker1 ELSE IF i = 2 THEN r.tracker2 ELSE vec[i]]

\* Mutant of HeadingSource: the tracking wheels are tried before the gyros.
HeadingSourceWheelsFirst ==
    IF Len(horizontals) > 1 THEN "horizontals"
    ELSE IF Len(verticals) > 1 THEN "verticals"
    ELSE IF Len(gyros) > 0 THEN "gyros"
    ELSE "none"

\* The if-else chain of update() that picks the source of the heading.
HeadingSource ==
    IF Len(gyros) > 0 THEN "gyros"
    ELSE IF Len(horizontals) > 1 THEN "horizontals"
    ELSE IF Len(verticals) > 1 THEN "verticals"
    ELSE "none"

----------------------------------------------------------------------------
(* ArcOdom::update *)

\* Mutant of UpdateAbort: the return is missing, update() logs the error
\* and goes on to integrate with a heading delta of 0.
UpdateAbortNoReturn ==
    /\ pc = "idle"
    /\ updates < MaxUpdates
    /\ HeadingSource = "none"
    /\ calls' = <<Call("error", "heading", Zero, Zero)>>
    /\ entry' = Snapshot
    /\ theta' = [deltaTheta |-> Zero, avgTheta |-> pose.theta]
    /\ pc' = "upd_local"
    /\ UNCHANGED <<verticals, horizontals, gyros, gyroState, gyroDelta, pose, failing,
                   startup, it, calibrateGyros, polls, issued, local, updates>>

\* The else branch: not enough sensors, update() logs an error and returns.
UpdateAbort ==
    /\ pc = "idle"
    /\ HeadingSource = "none"
    /\ calls' = <<Call("error", "heading", Zero, Zero)>>
    /\ entry' = Snapshot
    /\ pc' = "upd_return"
    /\ UNCHANGED <<startup, issued, verticals, horizontals, gyros, gyroState, gyroDelta, pose, failing, it,
                   calibrateGyros, polls, theta, local, updates>>

\* float theta = pose.theta; ... const float avgTheta = pose.theta + deltaTheta / 2;
UpdateTheta ==
    /\ pc = "idle"
    /\ updates < MaxUpdates
    /\ HeadingSource # "none"
    /\ LET src == HeadingSource
           rh == CalcDeltaThetaWheels("h", horizontals[1], horizontals[2])
           rv == CalcDeltaThetaWheels("v", verticals[1], verticals[2])
           th == Add(pose.theta,
                     CASE src = "gyros" -> CalcDeltaThetaGyros(gyros, Len(gyros))
                       [] src = "horizontals" -> rh.ret
                       [] src = "verticals" -> rv.ret)
           deltaTheta == Sub(th, pose.theta)
       IN  /\ theta' = [deltaTheta |-> deltaTheta,
                        avgTheta |-> Add(pose.theta, Div(deltaTheta, F(2)))]
           /\ gyroDelta' = IF src = "gyros"
                           THEN [p \in DOMAIN gyroDelta |->
                                    IF p \in Range(gyros) THEN Zero ELSE gyroDelta[p]]
                           ELSE gyroDelta
           /\ horizontals' = IF src = "horizontals" THEN WithFirstTwo(horizontals, rh)
                             ELSE horizontals
           /\ verticals' = IF src = "verticals" THEN WithFirstTwo(verticals, rv)
                           ELSE verticals
           /\ calls' = CASE src = "gyros" ->
                               [i \in 1..Len(gyros) |->
                                   Call("getRotationDelta", "g", F(gyros[i]),
                                        gyroDelta[gyros[i]])]
                         [] src = "horizontals" -> rh.calls
                         [] src = "verticals" -> rv.calls
    /\ local' = NoLocal
    /\ entry' = Snapshot
    /\ pc' = "upd_local"
    /\ UNCHANGED <<startup, issued, gyros, gyroState, pose, failing, it, calibrateGyros, polls, updates>>

\* 2 * std::sin(deltaTheta / 2), or 1 when deltaTheta is 0.  The sine is
\* not evaluated: the factor is 1 (sin = FALSE) or 2 * sin(of).
Chord(deltaTheta) ==
    IF deltaTheta = Zero THEN [sin |-> FALSE, of |-> Zero]
    ELSE [sin |-> TRUE, of |-> Div(deltaTheta, F(2))]

Radius(delta, deltaTheta, offset) ==
    IF deltaTheta = Zero THEN delta ELSE Add(Div(delta, deltaTheta), offset)

\* The sum "+= sinDTheta2 * radius / size" over the first k wheels of a
\* vector, as the coefficient of sinDTheta2.
RECURSIVE AxisSum(_, _, _, _)
AxisSum(ws, deltaTheta, size, k) ==
    IF k = 0 THEN Zero
    ELSE Add(AxisSum(ws, deltaTheta, size, k - 1),
             Div(Radius(GetDistanceDelta(ws[k], DefaultUpdate).ret, deltaTheta, ws[k].offset),
                 F(size)))

\* The divisors of the two loops of update().
XDivisor == Len(horizontals)

YDivisor == Len(horizontals)

Consumed(ws) == [i \in 1..Len(ws) |-> GetDistanceDelta(ws[i], DefaultUpdate).wheel]

ConsumeCalls(group, ws) ==
    [i \in 1..Len(ws) |->
        Call("getDistanceDelta()", group, ws[i].offset, GetDistanceDelta(ws[i], DefaultUpdate).ret)]

\* Pose local(0, 0, deltaTheta) and the two loops over the tracking wheels.
UpdateLocal ==
    /\ pc = "upd_local"
    /\ local' = [x |-> AxisSum(horizontals, theta.deltaTheta, XDivisor, Len(horizontals)),
                 y |-> AxisSum(verticals, theta.deltaTheta, YDivisor, Len(verticals)),
                 theta |-> theta.deltaTheta]
    /\ horizontals' = Consumed(horizontals)
    /\ verticals' = Consumed(verticals)
    /\ calls' = calls \o ConsumeCalls("h", horizontals) \o ConsumeCalls("v", verticals)
                      \o (IF verticals = <<>>
                          THEN <<Call("warn", "novertical", Zero, Zero)>>
                          ELSE <<>>)
    /\ pc' = "upd_global"
    /\ UNCHANGED <<startup, issued, gyros, gyroState, gyroDelta, pose, failing, it, calibrateGyros, polls,
                   theta, updates, entry>>

\* Pose::rotate(angle): the x, y of p turned by angle, the heading kept.
\* The rotation is not evaluated: the term is Rot(by) applied to
\* chord * (x, y).
Rotate(p, chord, angle) == [x |-> p.x, y |-> p.y, chord |-> chord, by |-> angle,
                            theta |-> p.theta]

\* Pose::operator+=: the component-wise sum; x and y are kept as the
\* sequence of the rotated terms added so far.
PoseAdd(p, term) ==
    [xy |-> Append(p.xy, [x |-> term.x, y |-> term.y, chord |-> term.chord,
                          by |-> term.by]),
     theta |-> Add(p.theta, term.theta)]

\* pose += local.rotate(avgTheta);
UpdateGlobal ==
    /\ pc = "upd_global"
    /\ pose' = PoseAdd(pose, Rotate(local, Chord(theta.deltaTheta), theta.avgTheta))
    /\ updates' = updates + 1
    /\ pc' = "upd_return"
    /\ UNCHANGED <<startup, issued, verticals, horizontals, gyros, gyroState, gyroDelta, failing, it,
                   calibrateGyros, polls, theta, local, calls, entry>>

\* update() returns: its locals go out of scope.
UpdateReturn ==
    /\ pc = "upd_return"
    /\ pc' = "idle"
    /\ theta' = NoTheta
    /\ local' = NoLocal
    /\ calls' = <<>>
    /\ entry' = NoEntry
    /\ UNCHANGED <<startup, issued, verticals, horizontals, gyros, gyroState, gyroDelta, pose, failing, it,
                   calibrateGyros, polls, updates>>

Update == UpdateAbort \/ UpdateTheta \/ UpdateLocal \/ UpdateGlobal \/ UpdateReturn

Environment == GyroProgress \/ SetPose \/ \E m \in Motions : Drive(m)

\* The scheduler calls calibrate() once at startup and update() once per
\* control cycle after it.
Next ==
    \/ startup /\ Calibrate
    \/ ~startup /\ pc # "idle" /\ Calibrate
    \/ ~startup /\ Update
    \/ ~startup /\ Environment

Spec == Init /\ [][Next]_vars

\* Any sequence of calibrate() calls, on any set of sensors.
NextCalibrate == Calibrate \/ GyroProgress

SpecCalibrate == Init /\ [][NextCalibrate]_vars

\* Any sequence of update() calls, on any set of sensors, as the robot moves.
NextUpdate == Update \/ SetPose \/ \E m \in Motions : Drive(m)

SpecUpdate == Init /\ [][NextUpdate]_vars

----------------------------------------------------------------------------
(* The properties *)

Count(fn, on, arg) ==
    Cardinality({i \in 1..Len(calls) :
                    calls[i].fn = fn /\ calls[i].on = on /\ calls[i].arg = arg})

RECURSIVE SumSeq(_)
SumSeq(s) == IF s = <<>> THEN Zero ELSE Add(Head(s), SumSeq(Tail(s)))

Survivors(ws, failed) == Filter(Offsets(ws), Range(Offsets(ws)) \ failed)

\* The operation that is running found no source for the heading.
NoSource == entry.gyros = <<>> /\ Len(entry.horizontals) < 2 /\ Len(entry.verticals) < 2

\* The heading delta of two wheels, as section 4.4 of the specification gives it.
TwoWheel(s1, s2) == Div(Sub(s1.delta, s2.delta), Sub(s1.offset, s2.offset))

\* The arithmetic mean of the rotation deltas of the gyros the cycle found.
GyroMean ==
    Div(SumSeq([i \in 1..Len(entry.gyros) |-> entry.gyroDelta[entry.gyros[i]]]),
        F(Len(entry.gyros)))

\* C1: when calibrate() returns, each wheel group holds exactly the wheels
\* found at entry whose reset() did not fail, in their order, and every
\* wheel still has the offset it was built with.
C1_EvictionExact ==
    pc = "cal_return" =>
        /\ Offsets(verticals) = Survivors(entry.verticals, failing.v)
        /\ Offsets(horizontals) = Survivors(entry.horizontals, failing.h)
        /\ \A i \in 1..Len(verticals) : verticals[i].offset = OffsetOf(verticals[i].id)
        /\ \A i \in 1..Len(horizontals) : horizontals[i].offset = OffsetOf(horizontals[i].id)

\* C2: when calibrate() returns, reset() has been called exactly once on
\* every wheel that was in a group at entry.
C2_EveryWheelResetOnce ==
    pc = "cal_return" =>
        /\ \A i \in 1..Len(entry.verticals) :
              Count("reset", "v", entry.verticals[i].offset) = 1
        /\ \A i \in 1..Len(entry.horizontals) :
              Count("reset", "h", entry.horizontals[i].offset) = 1

\* C3: calibrate() never faults, and the iterator of each of its loops
\* never moves past the end of the vector it traverses.
C3_TraversalInBounds ==
    /\ pc # "crashed"
    /\ pc = "cal_v" => it <= Len(verticals)
    /\ pc = "cal_h" => it <= Len(horizontals)
    /\ pc = "cal_evict" => it <= Len(gyros)

\* C4: when calibrate(true) returns, gyros holds exactly the gyros found at
\* entry that were calibrated when the timer expired.
C4_GyroEviction ==
    (pc = "cal_return" /\ calibrateGyros) =>
        gyros = Filter(entry.gyros,
                       {p \in DOMAIN entry.expiry : IsCalibrated(entry.expiry[p])})

C6_AbortKeepsPose ==
    (pc = "upd_return" /\ NoSource) =>
        /\ pose = entry.pose
        /\ Count("error", "heading", Zero) = 1

\* C6 happens: such an update() returns, on a pose that is not the initial one.
C6_Witness ==
    /\ pc = "upd_return"
    /\ NoSource
    /\ pose = StartPose
    /\ Len(verticals) = 1
    /\ Len(horizontals) = 1

\* The wheels of a group all carry the delta d.
Uniform(ws, d) == \A i \in 1..Len(ws) : ws[i].delta = d

\* C7: in a cycle whose heading delta is 0, a group whose wheels all report
\* the delta d contributes exactly d to its axis of the local displacement.
C7_StraightLine ==
    (pc = "upd_global" /\ theta.deltaTheta = Zero) =>
        /\ (entry.horizontals # <<>>
            /\ Uniform(entry.horizontals, entry.horizontals[1].delta))
           => local.x = entry.horizontals[1].delta
        /\ (entry.verticals # <<>>
            /\ Uniform(entry.verticals, entry.verticals[1].delta))
           => local.y = entry.verticals[1].delta

\* The reads of kind fn made on the wheel w of a group all returned w's delta.
ReadsReturn(fn, group, w) ==
    \A i \in 1..Len(calls) :
        (calls[i].fn = fn /\ calls[i].on = group /\ calls[i].arg = w.offset)
            => calls[i].ret = w.delta

\* Every wheel the cycle found was read once with consumption, and every
\* read of it, consuming or not, returned the delta the cycle found.
ConsumedOnce(group, ws) ==
    \A i \in 1..Len(ws) :
        /\ Count("getDistanceDelta()", group, ws[i].offset) = 1
        /\ ReadsReturn("getDistanceDelta()", group, ws[i])
        /\ ReadsReturn("getDistanceDelta(false)", group, ws[i])

\* C8: resolving the heading leaves the wheels' deltas unread, and when the
\* two loops are done every wheel has been consumed exactly once, with the
\* delta that the heading computation saw.
C8_DeltaConsumedOnce ==
    /\ pc = "upd_local" => (verticals = entry.verticals /\ horizontals = entry.horizontals)
    /\ (pc = "upd_global" \/ (pc = "upd_return" /\ ~NoSource)) =>
          /\ ConsumedOnce("v", entry.verticals)
          /\ ConsumedOnce("h", entry.horizontals)
          /\ Uniform(verticals, Zero)
          /\ Uniform(horizontals, Zero)

\* C8 happens: the heading came from two wheels, read without consumption,
\* of which one had moved.
C8_Witness ==
    /\ pc = "upd_global"
    /\ \E i \in 1..Len(calls) : calls[i].fn = "getDistanceDelta(false)" /\ calls[i].ret # Zero
    /\ theta.deltaTheta # Zero

\* The gyros of the vector that are neither calibrating nor calibrated.
Failed == Filter(gyros, {p \in DOMAIN gyroState :
                            gyroState[p] # "calibrating" /\ gyroState[p] # "calibrated"})

\* C9: calibrate(true) first calls calibrate() once on every gyro; each poll
\* calls it on exactly the gyros that are neither calibrating nor calibrated
\* and leaves the others alone; no other step calls it.  calibrate(false)
\* calls it on no gyro and leaves gyros as it was.
C9_RetryPolicy ==
    [][/\ (pc = "cal_g" /\ calibrateGyros) => (pc' = "cal_poll" /\ issued' = gyros)
       /\ (pc = "cal_poll" /\ polls' # polls) =>
             /\ issued' = Failed
             /\ \A p \in Range(gyros) \ Range(Failed) : gyroState'[p] = gyroState[p]
       /\ (pc = "cal_poll" /\ polls' = polls) => issued' = issued
       /\ (pc \notin {"cal_g", "cal_poll"}) => (issued' = issued \/ issued' = <<>>)
       /\ (pc' \in {"cal_v", "cal_h", "cal_g", "cal_return"} /\ ~calibrateGyros') =>
             (issued' = <<>> /\ gyros' = entry'.gyros)]_vars

\* C9 happens: a poll has called calibrate() on a gyro that had failed and
\* not on another that was calibrating or calibrated.
C9_Witness ==
    /\ pc = "cal_poll"
    /\ polls >= 1
    /\ issued # <<>>
    /\ Range(gyros) \ Range(issued) # {}

UpdatePcs == {"upd_local", "upd_global", "upd_return"}

CalibratePcs == {"cal_v", "cal_h", "cal_g", "cal_poll", "cal_evict", "cal_return", "crashed"}

\* C10: no step adds a sensor to a vector; a step of update() leaves the
\* three vectors' members as they are; a step of calibrate() leaves the pose
\* as it is.
C10_OnlyShrink ==
    [][/\ IsSubSeq(Offsets(verticals'), Offsets(verticals))
       /\ IsSubSeq(Offsets(horizontals'), Offsets(horizontals))
       /\ IsSubSeq(gyros', gyros)
       /\ (pc \in UpdatePcs \/ pc' \in UpdatePcs) =>
             /\ Offsets(verticals') = Offsets(verticals)
             /\ Offsets(horizontals') = Offsets(horizontals)
             /\ gyros' = gyros
       /\ (pc \in CalibratePcs \/ pc' \in CalibratePcs) => pose' = pose]_vars

\* C10 happens: calibrate() has erased the first vertical and a gyro, and an
\* update() has moved the pose since.
C10_Witness ==
    /\ pc = "idle"
    /\ updates >= 1
    /\ pose # NoPose
    /\ Len(verticals) >= 1
    /\ verticals[1].id # 1
    /\ Len(gyros) = 1

====
